---- MODULE Spec2Model ----
(***************************************************************************)
(* Order lifecycle, stock reservation and cart of the Indian Bazaar API.   *)
(*                                                                         *)
(* Every request handler is an async function: between two awaited         *)
(* database calls other requests run.  A request is therefore a process    *)
(* (a slot of reqs) whose pc names the awaited call it is about to make,   *)
(* and one action is one awaited call together with the synchronous code   *)
(* that follows it up to the next await or the response.                   *)
(*                                                                         *)
(* Money is held in thousandths of a rupee, so that the schemas' setter    *)
(* Math.round(v * 100) / 100 is the rounding to a multiple of 10.          *)
(***************************************************************************)
EXTENDS Integers, Sequences, FiniteSets, TLC

VARIABLES
    materials,    \* the Material collection: id -> document
    orders,       \* the Order collection, in insertion order; _id = index
    carts,        \* the Cart collection, in insertion order
    reqs,         \* the requests in flight: slot -> handler, position, locals
    now,          \* the server clock, in ms, as last read
    issued,       \* number of requests received so far
    creates,      \* number of createOrder requests among them
    decremented,  \* per order and line: units taken off its Material by createOrder
    restored,     \* per order and line: units put back onto its Material by cancelOrder
    geo,          \* the two points whose distance is asked for, and the answers
    client        \* CartProvider: its cart state and the responses on their way to it

\* the variables outside the server: no handler writes them
aux == <<geo, client>>
vars == <<materials, orders, carts, reqs, now, issued, creates, decremented, restored, aux>>
db == <<materials, orders, carts>>

(***************************************************************************)
(* Bounds                                                                  *)
(***************************************************************************)
MaxRequests == 3      \* requests received in one behaviour
InitQuantity == 100   \* stock of each material at the start

Slots == {"r1", "r2"}             \* requests in flight at once
Vendors == {"v1", "v2"}
Suppliers == {"s1", "s2"}
Users == Vendors \cup Suppliers
MaterialIds == {"m1", "m2", "m0"} \* m0 names no document
LineQtys == {60}
\* the instants at which the clock is read: the same millisecond, the next,
\* and 1000 s later the same day
Instants == {0, 1, 1000000}

\* the order ids the requests name: as many orders are ever created
OrderIds == {1, 2}

role(u) == IF u \in Vendors THEN "vendor" ELSE "supplier"

(***************************************************************************)
(* Schemas                                                                 *)
(***************************************************************************)
\* set: v => Math.round(v * 100) / 100
Round2(v) == ((v + 5) \div 10) * 10

DeliveryFee == 50000

AllStatuses ==
    {"pending", "confirmed", "processing", "packed", "shipped",
     "out_for_delivery", "delivered", "cancelled", "returned"}

validStatuses ==
    {"pending", "confirmed", "processing", "shipped", "delivered", "cancelled"}

RECURSIVE SumOver(_, _)
\* items.reduce((total, item) => total + f(item), 0), for f a field name
SumOver(items, f) ==
    IF items = <<>> THEN 0
    ELSE items[1][f] + SumOver(Tail(items), f)

NoMaterial == [exists |-> FALSE, quantity |-> 0, price |-> 0, supplierId |-> "none"]

Material(price, quantity, supplierId) ==
    [exists |-> TRUE, quantity |-> quantity, price |-> Round2(price),
     supplierId |-> supplierId]

(***************************************************************************)
(* Requests                                                                *)
(***************************************************************************)
\* no cart document
NoCart == [userId |-> "none", items |-> <<>>, totalItems |-> 0, totalAmount |-> 0,
           v |-> 0]

\* a body of updateMaterial with no key; a key that is present holds one value
NoBody == [price |-> {}, quantity |-> {}, supplierId |-> {}]

\* useState<Cart>({ items: [], totalItems: 0, totalAmount: 0 })
EmptyCart == [items |-> <<>>, totalItems |-> 0, totalAmount |-> 0]

\* no distance asked for yet
NoGeo == [asked |-> "none", lat1 |-> 0, lng1 |-> 0, lat2 |-> 0, lng2 |-> 0,
          ab |-> 0, ba |-> 0, aa |-> 0]

IdleReq ==
    [op |-> "none", pc |-> "idle", user |-> "none", materials |-> <<>>,
     clearCart |-> FALSE, id |-> 0, status |-> "none", i |-> 0,
     orderItems |-> <<>>, totalAmount |-> 0, orderNumber |-> <<>>, res |-> 0,
     materialId |-> "none", body |-> NoBody, supplierArg |-> "none",
     quantity |-> 0, itemId |-> 0, material |-> NoMaterial, cartIdx |-> 0,
     cart |-> NoCart]

\* res.status(code).json(...): the handler returns, its locals are gone
Respond(r, code) == [IdleReq EXCEPT !.op = r.op, !.pc = "done", !.res = code]

\* a request is taken by the first slot that is free
Free(s) ==
    /\ issued < MaxRequests
    /\ reqs[s].pc \in {"idle", "done"}
    /\ s = "r1" \/ reqs["r1"].pc \notin {"idle", "done"}

Line(m, q) == [materialId |-> m, quantity |-> q]

\* the bodies of the createOrder requests: no line, one line, two lines of
\* one material, two lines of two suppliers' materials, a line after a
\* missing or a valid one
Payloads ==
    {<<>>} \cup {<<Line(m, q)>> : m \in MaterialIds, q \in LineQtys}
           \cup {<<Line("m1", q), Line(m, q)>> : m \in MaterialIds, q \in LineQtys}
           \cup {<<Line("m2", q), Line("m1", q)>> : q \in LineQtys}

Init ==
    /\ materials = [m \in MaterialIds |->
                      CASE m = "m1" -> Material(10000, InitQuantity, "s1")
                        [] m = "m2" -> Material(2500, InitQuantity, "s2")
                        [] OTHER -> NoMaterial]
    /\ orders = <<>>
    /\ carts = <<>>
    /\ reqs = [s \in Slots |-> IdleReq]
    /\ now = 0
    /\ issued = 0
    /\ creates = 0
    /\ decremented = <<>>
    /\ restored = <<>>
    /\ geo = NoGeo
    /\ client = [cart |-> EmptyCart, inbox |-> {}]


(***************************************************************************)
(* createOrder                                                             *)
(***************************************************************************)
MsPerDay == 86400000

\* `IBP${year}${month}${day}`: the calendar day of the timestamp
DatePart(ts) == ts \div MsPerDay

\* Date.now().toString().slice(-6)
Last6(ts) == ts % 1000000

\* const orderNumber = `IBP${year}${month}${day}${timestamp}`
OrderNumber(ts) == <<DatePart(ts), Last6(ts)>>

InsufficientStock_Unchecked(item, material) == FALSE

\* if (item.quantity > material.quantity)
InsufficientStock(item, material) == item.quantity > material.quantity

\* POST /api/v1/orders arrives; an empty order is refused at once
CreateOrderRequest(s, u, mats, cc) ==
    /\ Free(s)
    /\ creates < Cardinality(OrderIds)
    /\ issued' = issued + 1
    /\ creates' = creates + 1
    /\ reqs' = [reqs EXCEPT ![s] =
                  IF Len(mats) = 0
                  THEN Respond([IdleReq EXCEPT !.op = "createOrder", !.user = u], 400)
                  ELSE [IdleReq EXCEPT !.op = "createOrder", !.pc = "validate",
                                       !.user = u, !.materials = mats,
                                       !.clearCart = cc, !.i = 1]]
    /\ UNCHANGED <<aux, materials, orders, carts, now, decremented, restored>>

\* one turn of the loop "Validate materials and calculate total"; after the
\* last line the order number is taken from the clock and Order.create is called
CreateOrderValidate(s, t) ==
    LET r == reqs[s]
        item == r.materials[r.i]
        material == materials[item.materialId]
        itemTotal == material.price * item.quantity
        orderItem == [materialId |-> item.materialId, quantity |-> item.quantity,
                      price |-> material.price, totalPrice |-> itemTotal,
                      supplierId |-> material.supplierId]
    IN
    /\ r.pc = "validate"
    /\ IF material.exists /\ ~InsufficientStock(item, material)
          /\ r.i = Len(r.materials)
       THEN t >= now
       ELSE t = now
    /\ now' = t
    /\ reqs' = [reqs EXCEPT ![s] =
                  IF ~material.exists THEN Respond(r, 404)
                  ELSE IF InsufficientStock(item, material) THEN Respond(r, 400)
                  ELSE IF r.i < Len(r.materials)
                  THEN [r EXCEPT !.i = r.i + 1,
                                 !.orderItems = Append(r.orderItems, orderItem),
                                 !.totalAmount = r.totalAmount + itemTotal]
                  ELSE [r EXCEPT !.pc = "create", !.i = 0,
                                 !.orderItems = Append(r.orderItems, orderItem),
                                 !.totalAmount = r.totalAmount + itemTotal,
                                 !.orderNumber = OrderNumber(t)]]
    /\ UNCHANGED <<aux, materials, orders, carts, issued, creates, decremented, restored>>

NewOrder_TotalWithoutFee(r) ==
    [orderNumber |-> r.orderNumber,
     vendorId |-> r.user,
     items |-> [k \in 1..Len(r.orderItems) |->
                  [r.orderItems[k] EXCEPT !.price = Round2(@),
                                          !.totalPrice = Round2(@)]],
     totalItems |-> SumOver(r.materials, "quantity"),
     subtotal |-> Round2(r.totalAmount),
     deliveryFee |-> Round2(DeliveryFee),
     discount |-> 0,
     taxes |-> 0,
     totalAmount |-> Round2(r.totalAmount),
     status |-> "pending",
     tracking |-> <<>>,
     createdAt |-> now]

\* the document Order.create is given, with the schema's setters applied
NewOrder(r) ==
    [orderNumber |-> r.orderNumber,
     vendorId |-> r.user,
     items |-> [k \in 1..Len(r.orderItems) |->
                  [r.orderItems[k] EXCEPT !.price = Round2(@),
                                          !.totalPrice = Round2(@)]],
     totalItems |-> SumOver(r.materials, "quantity"),
     subtotal |-> Round2(r.totalAmount),
     deliveryFee |-> Round2(DeliveryFee),
     discount |-> 0,
     taxes |-> 0,
     totalAmount |-> Round2(r.totalAmount + DeliveryFee),
     status |-> "pending",
     tracking |-> <<>>,
     createdAt |-> now]

OrderValid_NoMinimum(o) == TRUE

\* the schema's validators, run by Order.create before anything is written
OrderValid(o) ==
    /\ \A k \in 1..Len(o.items) :
          /\ o.items[k].quantity >= 1
          /\ o.items[k].price >= 0
          /\ o.items[k].totalPrice >= 0
    /\ o.totalItems >= 1
    /\ o.subtotal >= 0
    /\ o.totalAmount >= 0

OrderPreSave_LivePrices(o) ==
    LET items == [k \in 1..Len(o.items) |->
                    [o.items[k] EXCEPT
                        !.price = materials[o.items[k].materialId].price,
                        !.totalPrice = materials[o.items[k].materialId].price
                                          * o.items[k].quantity]]
    IN  [o EXCEPT !.items = items,
                  !.totalItems = SumOver(items, "quantity"),
                  !.subtotal = Round2(SumOver(items, "totalPrice"))]

\* orderSchema.pre('save'): the order number is set already; "Update totals"
OrderPreSave(o) ==
    [o EXCEPT !.totalItems = SumOver(o.items, "quantity"),
              !.subtotal = Round2(Round2(SumOver(o.items, "totalPrice")))]

OrderNumberFree_NoIndex(n) == TRUE

\* orderNumber: { unique: true }: the index refuses a second document
OrderNumberFree(n) == \A k \in 1..Len(orders) : orders[k].orderNumber # n

\* await Order.create({...}); a validation or duplicate-key error is caught: 500
CreateOrderPersist(s) ==
    LET r == reqs[s]
        o == NewOrder(r)
    IN
    /\ r.pc = "create"
    /\ IF OrderValid(o) /\ OrderNumberFree(o.orderNumber)
       THEN /\ orders' = Append(orders, OrderPreSave(o))
            /\ decremented' = Append(decremented, [k \in 1..Len(o.items) |-> 0])
            /\ restored' = Append(restored, [k \in 1..Len(o.items) |-> 0])
            /\ reqs' = [reqs EXCEPT ![s] =
                          [r EXCEPT !.pc = "decrement", !.i = 1,
                                    !.id = Len(orders) + 1]]
       ELSE /\ reqs' = [reqs EXCEPT ![s] = Respond(r, 500)]
            /\ UNCHANGED <<orders, decremented, restored>>
    /\ UNCHANGED <<aux, materials, carts, now, issued, creates>>

\* Material.findByIdAndUpdate(id, { $inc: { quantity: n } }): atomic, runs no
\* validator, and does nothing when the document is gone
IncQuantity(mats, id, n) ==
    IF mats[id].exists
    THEN [mats EXCEPT ![id].quantity = @ + n]
    ELSE mats

\* { $inc: { quantity: -item.quantity } }
DecrementInc(item) == -item.quantity

\* one turn of the loop "Update material quantities"; after the last line the
\* response is sent unless the cart is to be cleared first
CreateOrderDecrement(s) ==
    LET r == reqs[s]
        item == r.materials[r.i]
    IN
    /\ r.pc = "decrement"
    /\ materials' = IncQuantity(materials, item.materialId, DecrementInc(item))
    /\ decremented' = [decremented EXCEPT ![r.id][r.i] =
                         IF materials[item.materialId].exists
                         THEN @ + item.quantity ELSE @]
    /\ reqs' = [reqs EXCEPT ![s] =
                  IF r.i < Len(r.materials) THEN [r EXCEPT !.i = r.i + 1]
                  ELSE IF r.clearCart THEN [r EXCEPT !.pc = "clearCart", !.i = 0]
                  ELSE Respond(r, 201)]
    /\ UNCHANGED <<aux, orders, carts, now, issued, creates, restored>>

ClearedCart_ItemsOnly(c) == [c EXCEPT !.items = <<>>]

\* Cart.findOneAndUpdate({ userId }, { items: [], totalItems: 0, totalAmount: 0 })
ClearedCart(c) == [c EXCEPT !.items = <<>>, !.totalItems = 0, !.totalAmount = 0]

CartOf_NoCart(u) == 0

\* index of the first cart of the user, 0 when there is none (Cart.findOne)
CartOf(u) ==
    IF \E k \in 1..Len(carts) : carts[k].userId = u
    THEN CHOOSE k \in 1..Len(carts) :
            /\ carts[k].userId = u
            /\ \A j \in 1..(k - 1) : carts[j].userId # u
    ELSE 0

\* "Clear user's cart if items were ordered from cart", then the response
CreateOrderClearCart(s) ==
    LET r == reqs[s]
        k == CartOf(r.user)
    IN
    /\ r.pc = "clearCart"
    /\ carts' = IF k = 0 THEN carts ELSE [carts EXCEPT ![k] = ClearedCart(@)]
    /\ reqs' = [reqs EXCEPT ![s] = Respond(r, 201)]
    /\ UNCHANGED <<aux, materials, orders, now, issued, creates, decremented, restored>>

(***************************************************************************)
(* updateOrderStatus                                                       *)
(***************************************************************************)
\* authorize(...roles): if (!roles.includes(req.user.role)) 403
authorize(roles, u) == role(u) \in roles

\* order.items.some(m => m.supplierId.toString() === req.user.id)
hasSupplierMaterials(o, u) ==
    \E k \in 1..Len(o.items) : o.items[k].supplierId = u

\* PUT /api/v1/orders/:id/status arrives: the route's authorize('supplier'),
\* the check of the status, Order.findById and the check of the caller
UpdateOrderStatusRequest(s, u, id, status) ==
    /\ Free(s)
    /\ issued' = issued + 1
    /\ reqs' = [reqs EXCEPT ![s] =
                  LET r == [IdleReq EXCEPT !.op = "updateOrderStatus", !.user = u,
                                           !.id = id, !.status = status]
                  IN  IF ~authorize({"supplier"}, u) THEN Respond(r, 403)
                      ELSE IF status \notin validStatuses THEN Respond(r, 400)
                      ELSE IF id \notin 1..Len(orders) THEN Respond(r, 404)
                      ELSE IF ~hasSupplierMaterials(orders[id], u) THEN Respond(r, 403)
                      ELSE [r EXCEPT !.pc = "update"]]
    /\ UNCHANGED <<aux, materials, orders, carts, now, creates, decremented, restored>>

\* Order.findByIdAndUpdate(id, { status, ... }, { new: true })
StatusUpdate(o, status) == [o EXCEPT !.status = status]

UpdateOrderStatusWrite(s) ==
    LET r == reqs[s] IN
    /\ r.pc = "update"
    /\ orders' = [orders EXCEPT ![r.id] = StatusUpdate(@, r.status)]
    /\ reqs' = [reqs EXCEPT ![s] = Respond(r, 200)]
    /\ UNCHANGED <<aux, materials, carts, now, issued, creates, decremented, restored>>

(***************************************************************************)
(* cancelOrder                                                             *)
(***************************************************************************)
isVendor_AnyVendor(o, u) == role(u) = "vendor"

\* "Check authorization"
isVendor(o, u) == role(u) = "vendor" /\ o.vendorId = u

isSupplier(o, u) == role(u) = "supplier" /\ hasSupplierMaterials(o, u)

CannotCancel_DeliveredOnly(o) == o.status = "delivered"

\* if (['shipped', 'delivered'].includes(order.status))
CannotCancel(o) == o.status \in {"shipped", "delivered"}

\* PUT /api/v1/orders/:id/cancel arrives: Order.findById and the checks made
\* on the document it returned
CancelOrderRequest(s, u, id) ==
    /\ Free(s)
    /\ issued' = issued + 1
    /\ reqs' = [reqs EXCEPT ![s] =
                  LET r == [IdleReq EXCEPT !.op = "cancelOrder", !.user = u, !.id = id]
                  IN  IF id \notin 1..Len(orders) THEN Respond(r, 404)
                      ELSE IF ~isVendor(orders[id], u) /\ ~isSupplier(orders[id], u)
                           THEN Respond(r, 403)
                      ELSE IF CannotCancel(orders[id]) THEN Respond(r, 400)
                      ELSE [r EXCEPT !.pc = "restore", !.i = 1]]
    /\ UNCHANGED <<aux, materials, orders, carts, now, creates, decremented, restored>>

RestoreInc_CopiedSign(item) == -item.quantity

\* { $inc: { quantity: material.quantity } }
RestoreInc(item) == item.quantity

\* one turn of the loop "Restore material quantities"
CancelOrderRestore(s) ==
    LET r == reqs[s]
        item == orders[r.id].items[r.i]
    IN
    /\ r.pc = "restore"
    /\ materials' = IncQuantity(materials, item.materialId, RestoreInc(item))
    /\ restored' = [restored EXCEPT ![r.id][r.i] =
                      IF materials[item.materialId].exists
                      THEN @ + item.quantity ELSE @]
    /\ reqs' = [reqs EXCEPT ![s] =
                  IF r.i < Len(orders[r.id].items) THEN [r EXCEPT !.i = r.i + 1]
                  ELSE [r EXCEPT !.pc = "save", !.i = 0]]
    /\ UNCHANGED <<aux, orders, carts, now, issued, creates, decremented>>

\* order.status = 'cancelled'; await order.save(): the modified path is written
CancelOrderSave(s) ==
    LET r == reqs[s] IN
    /\ r.pc = "save"
    /\ orders' = [orders EXCEPT ![r.id] = OrderPreSave([@ EXCEPT !.status = "cancelled"])]
    /\ reqs' = [reqs EXCEPT ![s] = Respond(r, 200)]
    /\ UNCHANGED <<aux, materials, carts, now, issued, creates, decremented, restored>>

(***************************************************************************)
(* The cart API.  getCart and addToCart are a step per awaited call;        *)
(* updateCartItem, removeFromCart and clearCart are one step each: the     *)
(* specifications run them one request at a time.                          *)
(***************************************************************************)
\* the quantities the cart requests ask for
CartQtys == {0, 1, 60}
\* the supplierId of an addToCart body; "none" when the body has none
SupplierArgs == {"none"} \cup Suppliers
\* the _id of a cart line is the number of the request that pushed it
ItemIds == 1..MaxRequests

\* Cart.create({ userId, items: [], totalItems: 0, totalAmount: 0 })
NewCart(u) == [NoCart EXCEPT !.userId = u]

\* the validators of cartItemSchema and cartSchema
CartValid(c) ==
    /\ \A k \in 1..Len(c.items) :
          /\ c.items[k].quantity >= 1
          /\ c.items[k].price >= 0
          /\ c.items[k].totalPrice >= 0
    /\ c.totalItems >= 0
    /\ c.totalAmount >= 0

\* "Recalculate totals" of the controller; totalAmount has the rounding setter
RecalculateTotals(c) ==
    [c EXCEPT !.totalItems = SumOver(c.items, "quantity"),
              !.totalAmount = Round2(SumOver(c.items, "totalPrice"))]

\* cartSchema.pre('save')
CartPreSave(c) ==
    [c EXCEPT !.totalItems = SumOver(c.items, "quantity"),
              !.totalAmount = Round2(SumOver(c.items, "totalPrice"))]

\* cart.items.findIndex(pred), for S the indices that satisfy pred: the first
\* of them, 0 for -1
FindIndex(S) == IF S = {} THEN 0 ELSE CHOOSE k \in S : \A j \in S : k <= j

\* cart.items.splice(k, 1)
Splice(items, k) == [j \in 1..(Len(items) - 1) |-> IF j < k THEN items[j] ELSE items[j + 1]]

\* await cart.save() of a handler that read the cart in the same step: the
\* response is 200 and the document is written, or a validator throws and the
\* response is 500.  inc is 1 when the array itself was replaced or spliced,
\* which makes save() increment the version
CartSave(s, op, k, c, inc) ==
    IF CartValid(c)
    THEN /\ carts' = [carts EXCEPT ![k] = [CartPreSave(c) EXCEPT !.v = @ + inc]]
         /\ reqs' = [reqs EXCEPT ![s] = Respond([IdleReq EXCEPT !.op = op], 200)]
    ELSE /\ carts' = carts
         /\ reqs' = [reqs EXCEPT ![s] = Respond([IdleReq EXCEPT !.op = op], 500)]

\* a cart handler answers without a write
CartRespond(s, op, code) ==
    /\ reqs' = [reqs EXCEPT ![s] = Respond([IdleReq EXCEPT !.op = op], code)]
    /\ carts' = carts

CartUserFree_NoIndex(u) == TRUE

\* userId: { unique: true }: the index refuses a second cart of the user
CartUserFree(u) == \A k \in 1..Len(carts) : carts[k].userId # u

\* GET /api/v1/cart arrives and reads the cart; res.json({ success, cart })
\* carries the cart that was read
GetCartRequest(s, u) ==
    /\ Free(s)
    /\ issued' = issued + 1
    /\ reqs' = [reqs EXCEPT ![s] =
                  LET r == [IdleReq EXCEPT !.op = "getCart", !.user = u]
                  IN  IF CartOf(u) # 0
                      THEN [Respond(r, 200) EXCEPT !.cart = carts[CartOf(u)]]
                      ELSE [r EXCEPT !.pc = "createCart"]]
    /\ UNCHANGED <<aux, materials, orders, carts, now, creates, decremented, restored>>

\* await Cart.create({...}) of getCart; a duplicate-key error is caught: 500
GetCartCreate(s) ==
    LET r == reqs[s] IN
    /\ r.op = "getCart"
    /\ r.pc = "createCart"
    /\ IF CartUserFree(r.user)
       THEN /\ carts' = Append(carts, NewCart(r.user))
            /\ reqs' = [reqs EXCEPT ![s] =
                          [Respond(r, 200) EXCEPT !.cart = NewCart(r.user)]]
       ELSE /\ carts' = carts
            /\ reqs' = [reqs EXCEPT ![s] = Respond(r, 500)]
    /\ UNCHANGED <<aux, materials, orders, now, issued, creates, decremented, restored>>

\* POST /api/v1/cart/add arrives and reads the material
AddToCartRequest(s, u, materialId, supplierArg, quantity) ==
    LET material == materials[materialId]
        r == [IdleReq EXCEPT !.op = "addToCart", !.user = u,
                             !.materialId = materialId,
                             !.supplierArg = supplierArg,
                             !.quantity = quantity, !.itemId = issued + 1,
                             !.material = material]
    IN
    /\ Free(s)
    /\ issued' = issued + 1
    /\ reqs' = [reqs EXCEPT ![s] =
                  IF ~material.exists THEN Respond(r, 404)
                  ELSE IF quantity > material.quantity THEN Respond(r, 400)
                  ELSE [r EXCEPT !.pc = "findCart"]]
    /\ UNCHANGED <<aux, materials, orders, carts, now, creates, decremented, restored>>

\* cart.items.findIndex(item => item.materialId.toString() === materialId &&
\* item.supplierId.toString() === supplierId): a supplierId of the body is a
\* string; the one taken from the material is an ObjectId, which === equals
\* to no string
ExistingItemIndex(items, materialId, supplierArg) ==
    FindIndex({j \in 1..Len(items) :
                 /\ items[j].materialId = materialId
                 /\ supplierArg # "none"
                 /\ items[j].supplierId = supplierArg})

\* await Cart.findOne({ userId }); with the cart in hand, "Total quantity
\* exceeds available stock" is answered 400
AddToCartFindCart(s) ==
    LET r == reqs[s]
        k == CartOf(r.user)
        existingItemIndex ==
            ExistingItemIndex(carts[k].items, r.materialId, r.supplierArg)
    IN
    /\ r.pc = "findCart"
    /\ reqs' = [reqs EXCEPT ![s] =
                  IF k = 0 THEN [r EXCEPT !.pc = "createCart"]
                  ELSE IF /\ existingItemIndex > 0
                          /\ carts[k].items[existingItemIndex].quantity + r.quantity
                                > r.material.quantity
                       THEN Respond(r, 400)
                  ELSE [r EXCEPT !.pc = "saveCart", !.cartIdx = k,
                                 !.cart = carts[k]]]
    /\ UNCHANGED <<aux, materials, orders, carts, now, issued, creates, decremented,
                   restored>>

\* await Cart.create({...}) of addToCart; a duplicate-key error is caught: 500
AddToCartCreate(s) ==
    LET r == reqs[s] IN
    /\ r.op = "addToCart"
    /\ r.pc = "createCart"
    /\ IF CartUserFree(r.user)
       THEN /\ carts' = Append(carts, NewCart(r.user))
            /\ reqs' = [reqs EXCEPT ![s] =
                          [r EXCEPT !.pc = "saveCart", !.cartIdx = Len(carts) + 1,
                                    !.cart = NewCart(r.user)]]
       ELSE /\ carts' = carts
            /\ reqs' = [reqs EXCEPT ![s] = Respond(r, 500)]
    /\ UNCHANGED <<aux, materials, orders, now, issued, creates, decremented, restored>>

\* the line addToCart pushes
NewItem(r) ==
    [id |-> r.itemId, materialId |-> r.materialId,
     supplierId |-> IF r.supplierArg = "none" THEN r.material.supplierId
                    ELSE r.supplierArg,
     quantity |-> r.quantity, price |-> r.material.price,
     totalPrice |-> r.material.price * r.quantity]

\* "Update existing item" on line k of the items
MergedItems(items, k, r) ==
    [items EXCEPT ![k].quantity = @ + r.quantity,
                  ![k].totalPrice = r.material.price * (items[k].quantity + r.quantity)]

\* the push or the merge, "Recalculate totals" and await cart.save(): the
\* validators, then the pre('save') hook, then the write of the modified
\* paths to the stored document: a pushed line is appended to the stored
\* array and increments the version; a changed line is set in place, provided
\* the stored version is the one that was read (else VersionError: 500)
AddToCartSave(s) ==
    LET r == reqs[s]
        k == r.cartIdx
        existingItemIndex ==
            ExistingItemIndex(r.cart.items, r.materialId, r.supplierArg)
        cart == CartPreSave(RecalculateTotals([r.cart EXCEPT !.items =
                   IF existingItemIndex > 0
                   THEN MergedItems(@, existingItemIndex, r)
                   ELSE Append(@, NewItem(r))]))
        changed == existingItemIndex > 0 /\ cart.items # r.cart.items
        stored == [carts[k] EXCEPT
                     !.items = IF existingItemIndex = 0 THEN Append(@, NewItem(r))
                               ELSE IF changed
                               THEN MergedItems(@, existingItemIndex, r)
                               ELSE @,
                     !.totalItems = IF cart.totalItems # r.cart.totalItems
                                    THEN cart.totalItems ELSE @,
                     !.totalAmount = IF cart.totalAmount # r.cart.totalAmount
                                     THEN cart.totalAmount ELSE @,
                     !.v = IF existingItemIndex = 0 THEN @ + 1 ELSE @]
    IN
    /\ r.pc = "saveCart"
    /\ IF CartValid(cart) /\ (changed => carts[k].v = r.cart.v)
       THEN /\ carts' = [carts EXCEPT ![k] = stored]
            /\ reqs' = [reqs EXCEPT ![s] = Respond(r, 200)]
       ELSE /\ carts' = carts
            /\ reqs' = [reqs EXCEPT ![s] = Respond(r, 500)]
    /\ UNCHANGED <<aux, materials, orders, now, issued, creates, decremented, restored>>

\* PUT /api/v1/cart/:itemId
UpdateCartItem(s, u, itemId, quantity) ==
    LET k == CartOf(u)
        cart == carts[k]
        itemIndex == FindIndex({j \in 1..Len(cart.items) : cart.items[j].id = itemId})
        material == materials[cart.items[itemIndex].materialId]
        items == IF quantity = 0 THEN Splice(cart.items, itemIndex)
                 ELSE [cart.items EXCEPT
                         ![itemIndex].quantity = quantity,
                         ![itemIndex].totalPrice = material.price * quantity]
    IN
    /\ Free(s)
    /\ issued' = issued + 1
    /\ IF quantity = 0 \/ quantity < 0 THEN CartRespond(s, "updateCartItem", 400)
       ELSE IF k = 0 THEN CartRespond(s, "updateCartItem", 404)
       ELSE IF itemIndex = 0 THEN CartRespond(s, "updateCartItem", 404)
       ELSE IF ~material.exists THEN CartRespond(s, "updateCartItem", 404)
       ELSE IF quantity > material.quantity
            THEN CartRespond(s, "updateCartItem", 400)
       ELSE CartSave(s, "updateCartItem", k,
                     RecalculateTotals([cart EXCEPT !.items = items]),
                     IF quantity = 0 THEN 1 ELSE 0)
    /\ UNCHANGED <<aux, materials, orders, now, creates, decremented, restored>>

\* DELETE /api/v1/cart/:itemId
RemoveFromCart(s, u, itemId) ==
    LET k == CartOf(u)
        cart == carts[k]
        itemIndex == FindIndex({j \in 1..Len(cart.items) : cart.items[j].id = itemId})
    IN
    /\ Free(s)
    /\ issued' = issued + 1
    /\ IF k = 0 THEN CartRespond(s, "removeFromCart", 404)
       ELSE IF itemIndex = 0 THEN CartRespond(s, "removeFromCart", 404)
       ELSE CartSave(s, "removeFromCart", k,
                     RecalculateTotals([cart EXCEPT
                                          !.items = Splice(cart.items, itemIndex)]),
                     1)
    /\ UNCHANGED <<aux, materials, orders, now, creates, decremented, restored>>

\* DELETE /api/v1/cart
ClearCart(s, u) ==
    LET k == CartOf(u)
    IN
    /\ Free(s)
    /\ issued' = issued + 1
    /\ IF k = 0 THEN CartRespond(s, "clearCart", 404)
       ELSE CartSave(s, "clearCart", k,
                     [carts[k] EXCEPT !.items = <<>>, !.totalItems = 0,
                                      !.totalAmount = 0],
                     IF carts[k].items = <<>> THEN 0 ELSE 1)
    /\ UNCHANGED <<aux, materials, orders, now, creates, decremented, restored>>

(***************************************************************************)
(* Specification of the order API                                          *)
(***************************************************************************)
\* the callers of createOrder
Buyers == {"v1"}

\* the statuses the updateOrderStatus requests name: those of the schema but
\* processing, which no handler tells from confirmed, and packed and
\* out_for_delivery, which validStatuses leaves out as it does returned
StatusArgs == AllStatuses \ {"processing", "packed", "out_for_delivery"}

Next ==
    \/ \E s \in Slots, u \in Buyers, mats \in Payloads :
          CreateOrderRequest(s, u, mats, FALSE)
    \/ \E s \in Slots, t \in Instants : CreateOrderValidate(s, t)
    \/ \E s \in Slots : CreateOrderPersist(s)
    \/ \E s \in Slots : CreateOrderDecrement(s)
    \/ \E s \in Slots, u \in Users, id \in OrderIds, status \in StatusArgs :
          UpdateOrderStatusRequest(s, u, id, status)
    \/ \E s \in Slots : UpdateOrderStatusWrite(s)
    \/ \E s \in Slots, u \in Users, id \in OrderIds :
          CancelOrderRequest(s, u, id)
    \/ \E s \in Slots : CancelOrderRestore(s)
    \/ \E s \in Slots : CancelOrderSave(s)

Spec == Init /\ [][Next]_vars

(***************************************************************************)
(* Specification of the cart API: the cart requests and the checkout of    *)
(* one user, one request at a time                                         *)
(***************************************************************************)
CartSlots == {"r1"}

\* the owners of the carts; the first one also checks out
CartUsers == {"v1", "s1"}

\* the checkout of the cart specification orders one line
CartPayloads == {<<Line("m1", q)>> : q \in LineQtys}

NextCart ==
    \/ \E s \in CartSlots, u \in CartUsers : GetCartRequest(s, u)
    \/ \E s \in CartSlots : GetCartCreate(s)
    \/ \E s \in CartSlots, u \in CartUsers, m \in MaterialIds,
          sup \in SupplierArgs, q \in CartQtys : AddToCartRequest(s, u, m, sup, q)
    \/ \E s \in CartSlots : AddToCartFindCart(s)
    \/ \E s \in CartSlots : AddToCartCreate(s)
    \/ \E s \in CartSlots : AddToCartSave(s)
    \/ \E s \in CartSlots, u \in CartUsers, id \in ItemIds, q \in CartQtys :
          UpdateCartItem(s, u, id, q)
    \/ \E s \in CartSlots, u \in CartUsers, id \in ItemIds : RemoveFromCart(s, u, id)
    \/ \E s \in CartSlots, u \in CartUsers : ClearCart(s, u)
    \/ \E s \in CartSlots, u \in Buyers, mats \in CartPayloads, cc \in BOOLEAN :
          CreateOrderRequest(s, u, mats, cc)
    \/ \E s \in CartSlots, t \in Instants : CreateOrderValidate(s, t)
    \/ \E s \in CartSlots : CreateOrderPersist(s)
    \/ \E s \in CartSlots : CreateOrderDecrement(s)
    \/ \E s \in CartSlots : CreateOrderClearCart(s)

SpecCart == Init /\ [][NextCart]_vars

(***************************************************************************)
(* updateMaterial, deleteMaterial                                          *)
(***************************************************************************)
\* the bodies of the updateMaterial requests: a price with a fraction of a
\* paisa, a quantity, a negative quantity, another supplier as supplierId
MaterialBodies ==
    {[NoBody EXCEPT !.price = {12344}], [NoBody EXCEPT !.quantity = {5}],
     [NoBody EXCEPT !.quantity = {-1}], [NoBody EXCEPT !.supplierId = {"s2"}]}

\* the one value of a key that is present
ValueOf(S) == CHOOSE v \in S : TRUE

\* runValidators: true: min 0 of price and of quantity, on the keys of the body
MaterialUpdateValid(body) ==
    /\ \A v \in body.price : Round2(v) >= 0
    /\ \A v \in body.quantity : v >= 0

\* material.supplierId.toString() !== req.user.id
OwnsMaterial(material, u) == material.supplierId = u

\* Material.findByIdAndUpdate(id, req.body, ...): every key of the body is
\* set, the price through its setter
UpdatedMaterial(material, body) ==
    [material EXCEPT
        !.price = IF body.price = {} THEN @ ELSE Round2(ValueOf(body.price)),
        !.quantity = IF body.quantity = {} THEN @ ELSE ValueOf(body.quantity),
        !.supplierId = IF body.supplierId = {} THEN @ ELSE ValueOf(body.supplierId)]

\* the checks updateMaterial and deleteMaterial make on arrival, behind
\* authorize('supplier'): the status of the early return, 0 when there is none
MaterialChecks(u, id) ==
    IF ~authorize({"supplier"}, u) THEN 403
    ELSE IF ~materials[id].exists THEN 404
    ELSE IF ~OwnsMaterial(materials[id], u) THEN 403
    ELSE 0

\* PUT /api/v1/materials/:id arrives and reads the material
UpdateMaterialRequest(s, u, id, body) ==
    /\ Free(s)
    /\ issued' = issued + 1
    /\ reqs' = [reqs EXCEPT ![s] =
                  LET r == [IdleReq EXCEPT !.op = "updateMaterial", !.user = u,
                                           !.materialId = id, !.body = body]
                  IN  IF MaterialChecks(u, id) # 0 THEN Respond(r, MaterialChecks(u, id))
                      ELSE [r EXCEPT !.pc = "updateMaterial"]]
    /\ UNCHANGED <<aux, materials, orders, carts, now, creates, decremented, restored>>

\* await Material.findByIdAndUpdate(...): a validation error is answered 400;
\* nothing is written when the document is gone
UpdateMaterialWrite(s) ==
    LET r == reqs[s] IN
    /\ r.pc = "updateMaterial"
    /\ IF ~MaterialUpdateValid(r.body)
       THEN /\ reqs' = [reqs EXCEPT ![s] = Respond(r, 400)]
            /\ materials' = materials
       ELSE /\ reqs' = [reqs EXCEPT ![s] = Respond(r, 200)]
            /\ materials' = IF materials[r.materialId].exists
                            THEN [materials EXCEPT ![r.materialId] =
                                     UpdatedMaterial(@, r.body)]
                            ELSE materials
    /\ UNCHANGED <<aux, orders, carts, now, issued, creates, decremented, restored>>

\* DELETE /api/v1/materials/:id arrives and reads the material
DeleteMaterialRequest(s, u, id) ==
    /\ Free(s)
    /\ issued' = issued + 1
    /\ reqs' = [reqs EXCEPT ![s] =
                  LET r == [IdleReq EXCEPT !.op = "deleteMaterial", !.user = u,
                                           !.materialId = id]
                  IN  IF MaterialChecks(u, id) # 0 THEN Respond(r, MaterialChecks(u, id))
                      ELSE [r EXCEPT !.pc = "deleteMaterial"]]
    /\ UNCHANGED <<aux, materials, orders, carts, now, creates, decremented, restored>>

\* await Material.findByIdAndDelete(req.params.id)
DeleteMaterialWrite(s) ==
    LET r == reqs[s] IN
    /\ r.pc = "deleteMaterial"
    /\ materials' = [materials EXCEPT ![r.materialId] = NoMaterial]
    /\ reqs' = [reqs EXCEPT ![s] = Respond(r, 200)]
    /\ UNCHANGED <<aux, orders, carts, now, issued, creates, decremented, restored>>

(***************************************************************************)
(* Specification of the first accesses of the cart: getCart and addToCart  *)
(* requests of the same users in flight together                           *)
(***************************************************************************)
FirstAccessQtys == {1, 60}

NextFirstAccess ==
    \/ \E s \in Slots, u \in CartUsers : GetCartRequest(s, u)
    \/ \E s \in Slots : GetCartCreate(s)
    \/ \E s \in Slots, u \in CartUsers, sup \in SupplierArgs, q \in FirstAccessQtys :
          AddToCartRequest(s, u, "m1", sup, q)
    \/ \E s \in Slots : AddToCartFindCart(s)
    \/ \E s \in Slots : AddToCartCreate(s)
    \/ \E s \in Slots : AddToCartSave(s)

SpecFirstAccess == Init /\ [][NextFirstAccess]_vars

(***************************************************************************)
(* Specification of the catalogue: the suppliers' changes of the materials *)
(* beside the orders that name them                                        *)
(***************************************************************************)
\* the callers of createOrder here: a vendor and a supplier
MaterialBuyers == {"v1", "s1"}

MaterialPayloads ==
    {<<Line("m1", q)>> : q \in LineQtys}
        \cup {<<Line("m1", q), Line("m2", q)>> : q \in LineQtys}

NextMaterial ==
    \/ \E s \in Slots, u \in MaterialBuyers, mats \in MaterialPayloads :
          CreateOrderRequest(s, u, mats, FALSE)
    \/ \E s \in Slots, t \in Instants : CreateOrderValidate(s, t)
    \/ \E s \in Slots : CreateOrderPersist(s)
    \/ \E s \in Slots : CreateOrderDecrement(s)
    \/ \E s \in Slots, u \in Users, id \in MaterialIds, body \in MaterialBodies :
          UpdateMaterialRequest(s, u, id, body)
    \/ \E s \in Slots : UpdateMaterialWrite(s)
    \/ \E s \in Slots, u \in Users, id \in MaterialIds :
          DeleteMaterialRequest(s, u, id)
    \/ \E s \in Slots : DeleteMaterialWrite(s)
    \/ \E s \in Slots, u \in Users, id \in OrderIds : CancelOrderRequest(s, u, id)
    \/ \E s \in Slots : CancelOrderRestore(s)
    \/ \E s \in Slots : CancelOrderSave(s)

SpecMaterial == Init /\ [][NextMaterial]_vars

(***************************************************************************)
(* Specification of the lifecycle: the requests that write an order's      *)
(* status, one request at a time, every status of the schema asked for     *)
(***************************************************************************)
LifecycleSlots == {"r1"}

LifecyclePayloads == {<<Line("m1", q)>> : q \in LineQtys}

NextLifecycle ==
    \/ \E s \in LifecycleSlots, u \in Buyers, mats \in LifecyclePayloads :
          CreateOrderRequest(s, u, mats, FALSE)
    \/ \E s \in LifecycleSlots, t \in Instants : CreateOrderValidate(s, t)
    \/ \E s \in LifecycleSlots : CreateOrderPersist(s)
    \/ \E s \in LifecycleSlots : CreateOrderDecrement(s)
    \/ \E s \in LifecycleSlots, u \in Users, id \in OrderIds, status \in AllStatuses :
          UpdateOrderStatusRequest(s, u, id, status)
    \/ \E s \in LifecycleSlots : UpdateOrderStatusWrite(s)
    \/ \E s \in LifecycleSlots, u \in Users, id \in OrderIds :
          CancelOrderRequest(s, u, id)
    \/ \E s \in LifecycleSlots : CancelOrderRestore(s)
    \/ \E s \in LifecycleSlots : CancelOrderSave(s)

SpecLifecycle == Init /\ [][NextLifecycle]_vars

(***************************************************************************)
(* The Haversine distance of the server (calculateDistanceBetweenPoints)   *)
(* and of the client (calculateDistance).  Angles are whole degrees, the   *)
(* values of sin and cos are ten-thousandths, a product is rounded to the  *)
(* nearest ten-thousandth as a floating-point product is rounded to the    *)
(* nearest double.                                                         *)
(***************************************************************************)
Unit == 10000

Abs(x) == IF x < 0 THEN -x ELSE x

\* x * y of two fixed-point numbers, rounded to nearest, ties away from zero
Mul(x, y) ==
    LET m == (Abs(x) * Abs(y) + (Unit \div 2)) \div Unit
    IN  IF (x < 0) # (y < 0) THEN -m ELSE m

\* Math.sin of h half-degrees, -360 <= h <= 360 (Bhaskara's approximation)
Sin(h) ==
    LET k == Abs(h)
        s == (4 * Unit * k * (360 - k)) \div (162000 - k * (360 - k))
    IN  IF h < 0 THEN -s ELSE s

\* Math.cos of d degrees, -90 <= d <= 90
Cos(d) == Sin(2 * (90 - Abs(d)))

\* 2 * Math.atan2(Math.sqrt(a), Math.sqrt(1 - a)), in degrees: the angle
\* whose half has the squared sine a
Atan2Sqrt(a) ==
    IF \E h \in 0..180 : Mul(Sin(h), Sin(h)) >= a
    THEN CHOOSE h \in 0..180 :
            /\ Mul(Sin(h), Sin(h)) >= a
            /\ \A j \in 0..(h - 1) : Mul(Sin(j), Sin(j)) < a
    ELSE 180

\* Earth's radius in kilometers
R == 6371

\* R * c, in meters: c degrees * Math.PI / 180
Arc(c) == (R * c * 349) \div 20

HaversineA_Lat1Twice(lat1, lng1, lat2, lng2) ==
    Mul(Sin(lat2 - lat1), Sin(lat2 - lat1))
        + Mul(Mul(Mul(Cos(lat1), Cos(lat1)), Sin(lng2 - lng1)), Sin(lng2 - lng1))

\* const a = sin(dLat/2) * sin(dLat/2) + cos(lat1) * cos(lat2) * sin(dLng/2) * sin(dLng/2)
HaversineA(lat1, lng1, lat2, lng2) ==
    Mul(Sin(lat2 - lat1), Sin(lat2 - lat1))
        + Mul(Mul(Mul(Cos(lat1), Cos(lat2)), Sin(lng2 - lng1)), Sin(lng2 - lng1))

\* the server's helper
calculateDistanceBetweenPoints(lat1, lng1, lat2, lng2) ==
    Arc(Atan2Sqrt(HaversineA(lat1, lng1, lat2, lng2)))

\* the client's utility
calculateDistance(lat1, lon1, lat2, lon2) ==
    Arc(Atan2Sqrt(HaversineA(lat1, lon1, lat2, lon2)))

\* the coordinates asked for
Lats == {-90, -45, 0, 19, 28, 90}
Lngs == {-180, -73, 0, 72, 77, 180}

\* the server measures from A to B, from B to A and from A to A
ServerDistance(lat1, lng1, lat2, lng2) ==
    /\ geo.asked = "none"
    /\ geo' = [asked |-> "server", lat1 |-> lat1, lng1 |-> lng1,
               lat2 |-> lat2, lng2 |-> lng2,
               ab |-> calculateDistanceBetweenPoints(lat1, lng1, lat2, lng2),
               ba |-> calculateDistanceBetweenPoints(lat2, lng2, lat1, lng1),
               aa |-> calculateDistanceBetweenPoints(lat1, lng1, lat1, lng1)]
    /\ UNCHANGED <<materials, orders, carts, reqs, now, issued, creates,
                   decremented, restored, client>>

\* the client measures from A to B, from B to A and from A to A
ClientDistance(lat1, lon1, lat2, lon2) ==
    /\ geo.asked = "none"
    /\ geo' = [asked |-> "client", lat1 |-> lat1, lng1 |-> lon1,
               lat2 |-> lat2, lng2 |-> lon2,
               ab |-> calculateDistance(lat1, lon1, lat2, lon2),
               ba |-> calculateDistance(lat2, lon2, lat1, lon1),
               aa |-> calculateDistance(lat1, lon1, lat1, lon1)]
    /\ UNCHANGED <<materials, orders, carts, reqs, now, issued, creates,
                   decremented, restored, client>>

NextDistance ==
    \/ \E lat1 \in Lats, lng1 \in Lngs, lat2 \in Lats, lng2 \in Lngs :
          ServerDistance(lat1, lng1, lat2, lng2)
    \/ \E lat1 \in Lats, lng1 \in Lngs, lat2 \in Lats, lng2 \in Lngs :
          ClientDistance(lat1, lng1, lat2, lng2)

SpecDistance == Init /\ [][NextDistance]_vars

(***************************************************************************)
(* CartProvider, the cart state of the client.  A call of one of its       *)
(* functions is the arrival of its request at the server; the request      *)
(* stays in its slot until the client has the response of a mutation, and  *)
(* the responses that set the client's state travel in the inbox, where    *)
(* they may overtake each other.                                           *)
(***************************************************************************)
\* useAuth().user
ClientUser == "v1"

\* the materials of the catalogue the client shows, and the quantities asked
ClientMaterials == {"m1", "m2"}
ClientQtys == {0, 1, 60}

\* what the client keeps of a cart document
ClientView(c) ==
    [items |-> c.items, totalItems |-> c.totalItems, totalAmount |-> c.totalAmount]

\* cart.items.find(item => ... === materialId): the index of the line, 0 for
\* undefined
CartItem(materialId) ==
    FindIndex({j \in 1..Len(client.cart.items) :
                 client.cart.items[j].materialId = materialId})

\* useEffect(loadCart, [user]): the cart is fetched when the user is known,
\* before anything else is asked
ClientLoadCart(s) ==
    /\ issued = 0
    /\ reqs[s].pc = "idle"
    /\ GetCartRequest(s, ClientUser)

\* addToCart(material, quantity): apiClient.addToCart(material.id, quantity,
\* material.supplierId)
ClientAddToCart(s, materialId, quantity) ==
    /\ reqs[s].pc = "idle"
    /\ AddToCartRequest(s, ClientUser, materialId, materials[materialId].supplierId,
                        quantity)

\* removeFromCart(materialId): nothing is sent when the client has no such line
ClientRemoveFromCart(s, materialId) ==
    /\ reqs[s].pc = "idle"
    /\ CartItem(materialId) # 0
    /\ RemoveFromCart(s, ClientUser, client.cart.items[CartItem(materialId)].id)

\* updateQuantity(materialId, quantity)
ClientUpdateQuantity(s, materialId, quantity) ==
    IF quantity <= 0 THEN ClientRemoveFromCart(s, materialId)
    ELSE /\ reqs[s].pc = "idle"
         /\ CartItem(materialId) # 0
         /\ UpdateCartItem(s, ClientUser, client.cart.items[CartItem(materialId)].id,
                           quantity)

\* clearCart()
ClientClearCart(s) ==
    /\ reqs[s].pc = "idle"
    /\ ClearCart(s, ClientUser)

\* the functions that end with await refreshCart()
Refreshing == {"addToCart", "updateCartItem", "removeFromCart"}

\* if (response.success) await refreshCart(): the GET is sent
ClientRefresh(s) ==
    /\ reqs[s].pc = "done"
    /\ reqs[s].op \in Refreshing
    /\ reqs[s].res = 200
    /\ GetCartRequest(s, ClientUser)

\* apiClient throws on a response that is not ok; the catch shows a toast
ClientMutationFailed(s) ==
    /\ reqs[s].pc = "done"
    /\ reqs[s].op \in Refreshing \cup {"clearCart"}
    /\ reqs[s].res # 200
    /\ reqs' = [reqs EXCEPT ![s] = IdleReq]
    /\ UNCHANGED <<materials, orders, carts, now, issued, creates, decremented,
                   restored, aux>>

\* the response of getCart, or of a clearCart that succeeded, leaves the server
ResponseSent(s) ==
    LET r == reqs[s] IN
    /\ r.pc = "done"
    /\ r.op = "getCart" \/ (r.op = "clearCart" /\ r.res = 200)
    /\ client' = [client EXCEPT !.inbox =
                     @ \cup {[op |-> r.op, ok |-> r.res = 200,
                              cart |-> ClientView(r.cart)]}]
    /\ reqs' = [reqs EXCEPT ![s] = IdleReq]
    /\ UNCHANGED <<materials, orders, carts, now, issued, creates, decremented,
                   restored, geo>>

\* the response of getCart is lost on the way: fetch rejects
NetworkError(s) ==
    LET r == reqs[s] IN
    /\ r.pc = "done"
    /\ r.op = "getCart"
    /\ client' = [client EXCEPT !.inbox =
                     @ \cup {[op |-> r.op, ok |-> FALSE, cart |-> EmptyCart]}]
    /\ reqs' = [reqs EXCEPT ![s] = IdleReq]
    /\ UNCHANGED <<materials, orders, carts, now, issued, creates, decremented,
                   restored, geo>>

\* the promise settles: refreshCart does setCart(response.cart), or
\* setCart(empty) in its catch; clearCart does setCart(empty)
ClientReceive(m) ==
    /\ m \in client.inbox
    /\ client' = [cart |-> IF m.op = "getCart" /\ m.ok THEN m.cart ELSE EmptyCart,
                  inbox |-> client.inbox \ {m}]
    /\ UNCHANGED <<materials, orders, carts, reqs, now, issued, creates,
                   decremented, restored, geo>>

NextClient ==
    \/ \E s \in Slots : ClientLoadCart(s)
    \/ \E s \in Slots, m \in ClientMaterials, q \in ClientQtys : ClientAddToCart(s, m, q)
    \/ \E s \in Slots : AddToCartFindCart(s)
    \/ \E s \in Slots : AddToCartCreate(s)
    \/ \E s \in Slots : AddToCartSave(s)
    \/ \E s \in Slots, m \in ClientMaterials, q \in ClientQtys :
          ClientUpdateQuantity(s, m, q)
    \/ \E s \in Slots, m \in ClientMaterials : ClientRemoveFromCart(s, m)
    \/ \E s \in Slots : ClientClearCart(s)
    \/ \E s \in Slots : ClientRefresh(s)
    \/ \E s \in Slots : GetCartCreate(s)
    \/ \E s \in Slots : ClientMutationFailed(s)
    \/ \E s \in Slots : ResponseSent(s)
    \/ \E s \in Slots : NetworkError(s)
    \/ \E m \in client.inbox : ClientReceive(m)

SpecClient == Init /\ [][NextClient]_vars

(***************************************************************************)
(* Specification of the orders whose lines ask for no or less than no      *)
(* units                                                                   *)
(***************************************************************************)
BadLineQtys == {-5, 0, 60}

BadLinePayloads ==
    {<<Line("m1", q)>> : q \in BadLineQtys}
        \cup {<<Line("m1", q1), Line("m2", q2)>> : q1, q2 \in BadLineQtys}

NextBadLines ==
    \/ \E s \in Slots, u \in Buyers, mats \in BadLinePayloads :
          CreateOrderRequest(s, u, mats, FALSE)
    \/ \E s \in Slots, t \in Instants : CreateOrderValidate(s, t)
    \/ \E s \in Slots : CreateOrderPersist(s)
    \/ \E s \in Slots : CreateOrderDecrement(s)

SpecBadLines == Init /\ [][NextBadLines]_vars

(***************************************************************************)
(* Specification of the cart beside the catalogue: the cart requests of    *)
(* one user for a material whose supplier changes its price                *)
(***************************************************************************)
PriceBodies == {[NoBody EXCEPT !.price = {12344}]}

NextCartPrices ==
    \/ \E s \in CartSlots, sup \in SupplierArgs, q \in CartQtys :
          AddToCartRequest(s, "v1", "m1", sup, q)
    \/ \E s \in CartSlots : AddToCartFindCart(s)
    \/ \E s \in CartSlots : AddToCartCreate(s)
    \/ \E s \in CartSlots : AddToCartSave(s)
    \/ \E s \in CartSlots, id \in ItemIds, q \in CartQtys :
          UpdateCartItem(s, "v1", id, q)
    \/ \E s \in CartSlots, id \in ItemIds : RemoveFromCart(s, "v1", id)
    \/ \E s \in CartSlots, body \in PriceBodies :
          UpdateMaterialRequest(s, "s1", "m1", body)
    \/ \E s \in CartSlots : UpdateMaterialWrite(s)

SpecCartPrices == Init /\ [][NextCartPrices]_vars

(***************************************************************************)
(* Claims                                                                  *)
(***************************************************************************)
Quiescent == \A s \in Slots : reqs[s].pc \in {"idle", "done"}

\* C1: every Material's quantity is >= 0 in every state reachable by
\* createOrder and cancelOrder requests, whatever the payloads.
C1_QuantityNeverNegative ==
    \A m \in MaterialIds : materials[m].quantity >= 0

\* C2: a createOrder request whose line names a missing material is answered
\* 404, one whose line asks for more than the material's current quantity is
\* answered 400, also after earlier valid lines; up to then the request has
\* persisted no Order and changed no document, and 400/404 are sent from
\* nowhere else in the handler.
C2_RejectedCreateOrderChangesNothing ==
    [][\A s \in Slots :
          LET r == reqs[s]
              item == r.materials[r.i]
              doc == materials[item.materialId]
          IN  /\ (r.pc = "validate" /\ reqs'[s] # r) =>
                    /\ UNCHANGED <<materials, orders, carts>>
                    /\ r.id = 0
                    /\ ~doc.exists =>
                          reqs'[s].pc = "done" /\ reqs'[s].res = 404
                    /\ (doc.exists /\ item.quantity > doc.quantity) =>
                          reqs'[s].pc = "done" /\ reqs'[s].res = 400
              /\ (r.op = "createOrder" /\ r.res = 0 /\ reqs'[s].res \in {400, 404}) =>
                    r.pc = "validate"
              /\ (reqs'[s].pc = "validate" /\ r.pc # "validate") =>
                    r.pc \in {"idle", "done"}]_vars

C2_Witness ==
    \E s \in Slots :
        /\ reqs[s].op = "createOrder"
        /\ reqs[s].res = 404
        /\ orders = <<>>
        /\ \A m \in {"m1", "m2"} : materials[m].quantity = InitQuantity

\* C3: over the whole life of an order, the units cancelOrder has put back
\* onto a line's Material never exceed the units that line takes off it.
C3_RestoredAtMostOnce ==
    \A o \in 1..Len(orders) : \A k \in 1..Len(orders[o].items) :
        restored[o][k] <= orders[o].items[k].quantity

C4_Authorized(o, u) ==
    \/ u \in Vendors /\ o.vendorId = u
    \/ u \in Suppliers /\ \E k \in 1..Len(o.items) : o.items[k].supplierId = u

\* C4: a cancelOrder request for an order that is shipped or delivered ends
\* at once, with 400 for a caller allowed to cancel (403 for any other), and
\* changes neither the order nor any Material.
C4_ShippedOrDeliveredNotCancelled ==
    [][\A s \in Slots :
          (issued' # issued /\ reqs'[s] # reqs[s] /\ reqs'[s].op = "cancelOrder") =>
            \A u \in Users, id \in OrderIds :
              (/\ CancelOrderRequest(s, u, id)
               /\ id <= Len(orders)
               /\ orders[id].status \in {"shipped", "delivered"})
              => /\ reqs'[s].pc = "done"
                 /\ reqs'[s].res = IF C4_Authorized(orders[id], u) THEN 400 ELSE 403
                 /\ UNCHANGED <<materials, orders, carts, decremented, restored>>]_vars

C4_Witness ==
    \E s \in Slots :
        /\ reqs[s].op = "cancelOrder"
        /\ reqs[s].res = 400
        /\ \E o \in 1..Len(orders) : orders[o].status \in {"shipped", "delivered"}

\* C5: two createOrder requests for one line each of the same Material, with
\* nothing cancelled, never take more off the Material together than its stock.
C5_NoOversellByTwoRequests ==
    \A o1, o2 \in 1..Len(orders) :
        (/\ o1 # o2
         /\ Len(orders[o1].items) = 1
         /\ Len(orders[o2].items) = 1
         /\ orders[o1].items[1].materialId = orders[o2].items[1].materialId
         /\ \A o \in 1..Len(orders) : \A k \in 1..Len(orders[o].items) :
               restored[o][k] = 0)
        => decremented[o1][1] + decremented[o2][1] <= InitQuantity

RECURSIVE C6_Ordered(_, _)
\* the units the lines of an order ask of material m
C6_Ordered(items, m) ==
    IF items = <<>> THEN 0
    ELSE (IF items[1].materialId = m THEN items[1].quantity ELSE 0)
         + C6_Ordered(Tail(items), m)

\* C6: when the only requests so far are one createOrder that persisted an
\* order and then at most one cancelOrder of it, then after the creation the
\* order is pending and every material is down by the ordered units, and
\* after the cancel the order is cancelled and every material is back at the
\* quantity it had before the creation.
C6_CreateThenCancelRestoresStock ==
    (Quiescent /\ creates = 1 /\ Len(orders) = 1) =>
        /\ issued = 1 =>
              /\ orders[1].status = "pending"
              /\ \A m \in MaterialIds : materials[m].exists =>
                    materials[m].quantity
                        = InitQuantity - C6_Ordered(orders[1].items, m)
        /\ (issued = 2 /\ \E s \in Slots :
                reqs[s].op = "cancelOrder" /\ reqs[s].res = 200) =>
              /\ orders[1].status = "cancelled"
              /\ \A m \in MaterialIds : materials[m].exists =>
                    materials[m].quantity = InitQuantity

C6_Witness ==
    /\ Quiescent /\ creates = 1 /\ Len(orders) = 1 /\ issued = 2
    /\ \E s \in Slots : reqs[s].op = "cancelOrder" /\ reqs[s].res = 200
    /\ orders[1].status = "cancelled"
    /\ materials["m1"].quantity = InitQuantity

\* C7: no two persisted orders created on the same calendar day carry the
\* same orderNumber.
C7_OrderNumberUniquePerDay ==
    \A o1, o2 \in 1..Len(orders) :
        (o1 # o2 /\ orders[o1].createdAt \div 86400000 = orders[o2].createdAt \div 86400000)
        => orders[o1].orderNumber # orders[o2].orderNumber

\* two orders of one day are persisted, the second one 1000 s after the first
C7_Witness ==
    /\ Len(orders) = 2
    /\ orders[1].createdAt \div 86400000 = orders[2].createdAt \div 86400000
    /\ orders[1].orderNumber[2] = 0
    /\ orders[2].createdAt = 1000000

C9_Owns(o, u) ==
    u \in Suppliers /\ \E k \in 1..Len(o.items) : o.items[k].supplierId = u

C9_MayCancel(o, u) == (u \in Vendors /\ o.vendorId = u) \/ C9_Owns(o, u)

\* C9: an order's status is written by updateOrderStatus only for a supplier
\* owning a line of it, and stock is restored and the order cancelled by
\* cancelOrder only for the order's vendor or such a supplier; a request of
\* any other caller on an existing order ends at once with 403 (400 when a
\* supplier names no valid status to updateOrderStatus) and changes neither
\* the order nor any stock.  (Stated step by step: a step in which a request
\* arrives and is not answered so is the arrival of no such caller's request.)
C9_OnlyInvolvedCallers ==
    [][/\ \A s \in Slots :
            (/\ issued' # issued
             /\ reqs'[s] # reqs[s]
             /\ reqs'[s].op = "updateOrderStatus"
             /\ ~(reqs'[s].pc = "done" /\ reqs'[s].res = 403)) =>
              \A u \in Users, id \in 1..Len(orders), st \in StatusArgs :
                (/\ ~(/\ reqs'[s].pc = "done"
                      /\ reqs'[s].res = 400
                      /\ st \notin validStatuses
                      /\ u \in Suppliers)
                 /\ ~C9_Owns(orders[id], u))
                => ~UpdateOrderStatusRequest(s, u, id, st)
       /\ \A s \in Slots :
            (/\ issued' # issued
             /\ reqs'[s] # reqs[s]
             /\ reqs'[s].op = "cancelOrder"
             /\ ~(reqs'[s].pc = "done" /\ reqs'[s].res = 403)) =>
              \A u \in Users, id \in 1..Len(orders) :
                ~C9_MayCancel(orders[id], u) => ~CancelOrderRequest(s, u, id)
       /\ \A s \in Slots :
            /\ reqs'[s].pc = "update" =>
                  C9_Owns(orders[reqs'[s].id], reqs'[s].user)
            /\ reqs'[s].pc \in {"restore", "save"} =>
                  C9_MayCancel(orders[reqs'[s].id], reqs'[s].user)
       /\ \A o \in 1..Len(orders) :
            orders'[o].status # orders[o].status =>
                \E s \in Slots : reqs[s].id = o /\ reqs[s].pc \in {"update", "save"}
                                 /\ reqs'[s].pc = "done"
       /\ materials' # materials =>
            \E s \in Slots : reqs[s].pc \in {"decrement", "restore"}
                             /\ reqs'[s] # reqs[s]]_vars

C9_Witness ==
    /\ \E s \in Slots : reqs[s].op = "cancelOrder" /\ reqs[s].res = 403
    /\ \E s \in Slots : reqs[s].op = "updateOrderStatus" /\ reqs[s].res = 403
    /\ Len(orders) = 1
    /\ orders[1].status = "pending"
    /\ materials["m1"].quantity + materials["m2"].quantity
          = 2 * InitQuantity - SumOver(orders[1].items, "quantity")

\* C10: delivered, cancelled and returned are terminal: no step changes the
\* status of an order that is in one of them.
C10_TerminalStatuses ==
    [][\A o \in 1..Len(orders) :
          orders[o].status \in {"delivered", "cancelled", "returned"}
          => orders'[o].status = orders[o].status]_vars

\* C8: after any sequence of cart requests and checkouts, every persisted cart
\* has totalItems equal to the sum of its lines' quantity and totalAmount
\* equal to the sum of its lines' totalPrice.
C8_CartTotalsMatchLines ==
    \A k \in 1..Len(carts) :
       /\ carts[k].totalItems = SumOver(carts[k].items, "quantity")
       /\ carts[k].totalAmount = SumOver(carts[k].items, "totalPrice")

\* a cart of two lines, the first one merged from two addToCart requests
C8_Witness ==
    /\ Len(carts) = 1
    /\ Len(carts[1].items) = 2
    /\ carts[1].items[1].quantity = 61
    /\ carts[1].items[2].id = 3
    /\ carts[1].totalItems > 61
    /\ carts[1].totalAmount > 61 * materials[carts[1].items[1].materialId].price

\* C11: in the step in which an order's status becomes cancelled, by
\* cancelOrder or by updateOrderStatus, every line's quantity has been added
\* back onto its Material.
C11_CancelledRestoresStock ==
    [][\A o \in 1..Len(orders) :
          (orders[o].status # "cancelled" /\ orders'[o].status = "cancelled") =>
             \A k \in 1..Len(orders[o].items) :
                restored'[o][k] >= orders[o].items[k].quantity]_vars

\* the prices an order stores
C12_Prices(o) ==
    <<[k \in 1..Len(o.items) |-> <<o.items[k].price, o.items[k].totalPrice>>],
      o.subtotal, o.totalAmount>>

\* C12: no step changes the prices stored in an existing order (its items'
\* price and totalPrice, its subtotal and totalAmount), whatever updateMaterial
\* and deleteMaterial do to the materials and whoever saves the order later.
C12_OrderPricesAreSnapshots ==
    [][\A o \in 1..Len(orders) :
          C12_Prices(orders'[o]) = C12_Prices(orders[o])]_vars

\* the supplier has changed the price of m1 and cancelOrder has saved an
\* order of m1, which still holds the price it was created at
C12_Witness ==
    /\ Len(orders) = 1
    /\ orders[1].status = "cancelled"
    /\ orders[1].items[1].materialId = "m1"
    /\ orders[1].items[1].price = 10000
    /\ orders[1].subtotal = SumOver(orders[1].items, "totalPrice")
    /\ materials["m1"].price = 12340
    /\ materials["m1"].quantity = InitQuantity

\* C13: a cart holds at most one line per (materialId, supplierId) pair.
C13_OneLinePerPair ==
    \A c \in 1..Len(carts) : \A j, k \in 1..Len(carts[c].items) :
        (/\ carts[c].items[j].materialId = carts[c].items[k].materialId
         /\ carts[c].items[j].supplierId = carts[c].items[k].supplierId)
        => j = k

\* C20: no two carts have the same user, also when the user's first getCart
\* and addToCart requests are in flight together; and a getCart or addToCart
\* that found no cart leaves its Cart.create with a cart of the user stored.
C20_OneCartPerUser ==
    [][/\ \A j, k \in 1..Len(carts') :
             carts'[j].userId = carts'[k].userId => j = k
       /\ \A s \in Slots :
             (reqs[s].pc = "createCart" /\ reqs'[s] # reqs[s]) =>
                 \E k \in 1..Len(carts') : carts'[k].userId = reqs[s].user]_vars

\* two first accesses of v1 both found no cart; one created it, the other's
\* Cart.create was refused
C20_Witness ==
    /\ Len(carts) = 1
    /\ carts[1].userId = "v1"
    /\ \E s \in Slots : reqs[s].op = "getCart" /\ reqs[s].res = 500
    /\ \E s \in Slots : reqs[s].op = "addToCart" /\ reqs[s].res = 200

RECURSIVE C14_InCart(_, _)
\* the units of material m over the lines of a cart
C14_InCart(items, m) ==
    IF items = <<>> THEN 0
    ELSE (IF items[1].materialId = m THEN items[1].quantity ELSE 0)
            + C14_InCart(Tail(items), m)

\* C14: right after an addToCart request is answered 200, the units of its
\* material over the lines of the user's cart are at most the material's
\* quantity.
C14_AddToCartWithinStock ==
    [][\A s \in Slots :
          (reqs[s].pc = "saveCart" /\ reqs'[s].pc = "done" /\ reqs'[s].res = 200) =>
             C14_InCart(carts'[reqs[s].cartIdx].items, reqs[s].materialId)
                <= materials'[reqs[s].materialId].quantity]_vars

\* line id of the user's cart, as a set of at most one line
C15_Line(cs, u, id) ==
    {l \in UNION {{c.items[j] : j \in 1..Len(c.items)} :
                     c \in {cs[k] : k \in {k \in 1..Len(cs) : cs[k].userId = u}}} :
        l.id = id}

\* C15: an updateCartItem request that names an existing line of the user's
\* cart removes the line when its quantity is 0 and leaves totals that match
\* the remaining lines; when its quantity is positive and within the
\* material's stock, the line's quantity is that value afterwards.
C15_UpdateSetsOrRemoves ==
    [][\A s \in CartSlots, u \in CartUsers, id \in ItemIds, q \in CartQtys :
          (UpdateCartItem(s, u, id, q) /\ C15_Line(carts, u, id) # {}) =>
             /\ q = 0 => /\ C15_Line(carts', u, id) = {}
                         /\ C8_CartTotalsMatchLines'
             /\ (/\ q > 0
                 /\ \A l \in C15_Line(carts, u, id) :
                       q <= materials[l.materialId].quantity)
                => \A l \in C15_Line(carts', u, id) : l.quantity = q]_vars

\* C16: a material is changed or deleted through updateMaterial and
\* deleteMaterial only by the supplier recorded as its supplierId: the request
\* of any other user is answered 403 and leaves the material unchanged, and
\* no updateMaterial request changes the supplier that owns the material.
C16_OnlyOwnerChangesMaterial ==
    [][\A s \in Slots :
          /\ \A u \in Users, id \in MaterialIds :
                (/\ materials[id].exists
                 /\ materials[id].supplierId # u
                 /\ \/ \E body \in MaterialBodies : UpdateMaterialRequest(s, u, id, body)
                    \/ DeleteMaterialRequest(s, u, id)) =>
                   reqs'[s].pc = "done" /\ reqs'[s].res = 403
          /\ reqs[s].pc = "updateMaterial" =>
                \A m \in MaterialIds :
                   materials'[m].exists =>
                      materials'[m].supplierId = materials[m].supplierId]_vars

\* C17: an order is created only by a user whose role is vendor: the
\* createOrder request of an authenticated supplier is rejected, creates no
\* Order and changes no stock.
C17_OnlyVendorsCreateOrders ==
    [][\A s \in Slots :
          /\ \A u \in MaterialBuyers \ Vendors, mats \in MaterialPayloads :
                CreateOrderRequest(s, u, mats, FALSE) =>
                   reqs'[s].pc = "done" /\ reqs'[s].res = 403
          /\ (/\ reqs[s].pc \notin {"idle", "done"}
              /\ reqs'[s] # reqs[s]
              /\ reqs[s].op = "createOrder"
              /\ reqs[s].user \notin Vendors) =>
                 UNCHANGED <<materials, orders>>]_vars

\* C18: a supplier's updateOrderStatus or cancelOrder request on an order
\* that also holds other suppliers' lines changes the quantity of no
\* material owned by another supplier.
C18_SupplierTouchesOwnStockOnly ==
    [][\A s \in Slots :
          (/\ reqs'[s] # reqs[s]
           /\ reqs[s].op \in {"updateOrderStatus", "cancelOrder"}
           /\ reqs[s].pc \notin {"idle", "done"}
           /\ reqs[s].user \in Suppliers) =>
              \A m \in MaterialIds :
                 materials[m].supplierId # reqs[s].user =>
                    materials'[m].quantity = materials[m].quantity]_vars

\* the status that follows st on the happy path of the lifecycle
C19_NextOnPath(st) ==
    CASE st = "pending" -> "confirmed"
      [] st = "confirmed" -> "processing"
      [] st = "processing" -> "shipped"
      [] st = "shipped" -> "out_for_delivery"
      [] st = "out_for_delivery" -> "delivered"
      [] OTHER -> "none"

\* C19: every status of the lifecycle is reachable through the API from a
\* new order: an updateOrderStatus request of a supplier of the order that
\* names the status following the order's on the happy path pending,
\* confirmed, processing, shipped, out_for_delivery, delivered, or the side
\* branch returned of a delivered order, is accepted and goes on to write it.
C19_LifecycleCanBeWalked ==
    [][\A s \in LifecycleSlots, u \in Suppliers, id \in OrderIds, status \in AllStatuses :
          (/\ id \in 1..Len(orders)
           /\ hasSupplierMaterials(orders[id], u)
           /\ \/ status = C19_NextOnPath(orders[id].status)
              \/ orders[id].status = "delivered" /\ status = "returned"
           /\ UpdateOrderStatusRequest(s, u, id, status)) =>
              reqs'[s].pc = "update"]_vars

\* the cart of user u is empty: no cart, or no items and both totals 0
C21_CartEmpty(cs, u) ==
    \A k \in 1..Len(cs) :
       cs[k].userId = u =>
          cs[k].items = <<>> /\ cs[k].totalItems = 0 /\ cs[k].totalAmount = 0

\* C21 as stated: when a createOrder request that persisted an order is
\* answered 201, the ordering user's cart is empty: no items, totalItems 0
\* and totalAmount 0.
C21_CheckoutEmptiesCart ==
    [][\A s \in CartSlots :
          (/\ reqs[s].op = "createOrder"
           /\ reqs[s].pc \in {"decrement", "clearCart"}
           /\ reqs'[s].pc = "done" /\ reqs'[s].res = 201) =>
              C21_CartEmpty(carts', reqs[s].user)]_vars

\* C21 amended: when a createOrder request whose body carried clearCart: true
\* is answered 201, the ordering user's cart is empty: no items, totalItems 0
\* and totalAmount 0.
C21_CheckoutWithClearCartEmptiesCart ==
    [][\A s \in CartSlots :
          (/\ reqs[s].op = "createOrder"
           /\ reqs[s].clearCart
           /\ reqs[s].pc \in {"decrement", "clearCart"}
           /\ reqs'[s].pc = "done" /\ reqs'[s].res = 201) =>
              C21_CartEmpty(carts', reqs[s].user)]_vars

\* the second request was a checkout answered 201, the first one had pushed a
\* line to the cart that is now empty
C21_Witness ==
    /\ issued = 2
    /\ reqs["r1"].op = "createOrder" /\ reqs["r1"].pc = "done" /\ reqs["r1"].res = 201
    /\ \E k \in 1..Len(carts) :
          /\ carts[k].userId = "v1" /\ carts[k].v = 1
          /\ carts[k].items = <<>> /\ carts[k].totalItems = 0 /\ carts[k].totalAmount = 0

\* C22: the Haversine distance is symmetric, distance(A, B) = distance(B, A),
\* and distance(A, A) = 0, for all pairs of coordinates A and B, in the
\* server's helper and in the client's utility.
C22_DistanceSymmetric ==
    geo.ab = geo.ba /\ geo.aa = 0

\* the client has measured two places some 1150 km apart
C22_Witness ==
    /\ geo.asked = "client"
    /\ <<geo.lat1, geo.lng1, geo.lat2, geo.lng2>> = <<19, 72, 28, 77>>
    /\ geo.ab > 1000000 /\ geo.ab < 1300000

\* C23: every successful status transition of an order, by updateOrderStatus
\* or cancelOrder, appends exactly one entry carrying the new status to the
\* order's tracking history, and no step removes or rewrites an earlier entry.
C23_TransitionsAppendTracking ==
    [][\A o \in 1..Len(orders) :
          LET old == orders[o].tracking
              new == orders'[o].tracking
          IN  /\ Len(new) >= Len(old)
              /\ \A k \in 1..Len(old) : new[k] = old[k]
              /\ orders'[o].status # orders[o].status =>
                    /\ Len(new) = Len(old) + 1
                    /\ new[Len(new)].status = orders'[o].status]_vars

\* the sequence numbers of the orders of order o's day persisted before it
C24_EarlierOfDay(o) ==
    {orders[k].orderNumber[2] :
        k \in {j \in 1..(o - 1) : orders[j].orderNumber[1] = orders[o].orderNumber[1]}}

\* C24: the orderNumber of a new order is IBP, the YYMMDD of its creation
\* date and a 4-digit daily sequence number one more than the highest
\* sequence number used that day so far, 0001 for the first order of a day.
C24_OrderNumberIsDailySequence ==
    \A o \in 1..Len(orders) :
       LET seq == orders[o].orderNumber[2]
           used == C24_EarlierOfDay(o)
       IN  /\ seq <= 9999
           /\ \A n \in used : n < seq
           /\ seq = IF used = {} THEN 1
                    ELSE 1 + CHOOSE n \in used : \A m \in used : m <= n

RECURSIVE C25_LinesTotal(_)
\* the sum of price x quantity over the lines
C25_LinesTotal(items) ==
    IF items = <<>> THEN 0
    ELSE Head(items).price * Head(items).quantity + C25_LinesTotal(Tail(items))

\* C25: every persisted Order has totalAmount = subtotal + deliveryFee -
\* discount + taxes in every reachable state, its subtotal the sum of price x
\* quantity over its lines and its deliveryFee the fixed fee of the creation.
C25_OrderTotalIsSumOfParts ==
    \A o \in 1..Len(orders) :
       /\ orders[o].totalAmount =
             orders[o].subtotal + orders[o].deliveryFee - orders[o].discount
                + orders[o].taxes
       /\ orders[o].subtotal = C25_LinesTotal(orders[o].items)
       /\ orders[o].deliveryFee = DeliveryFee

\* an order of two lines, the first at a price a supplier has changed, has
\* been cancelled and saved again
C25_Witness ==
    \E o \in 1..Len(orders) :
       /\ Len(orders[o].items) = 2
       /\ orders[o].items[1].price = 12340
       /\ orders[o].status = "cancelled"
       /\ orders[o].totalAmount = 12340 * 60 + 2500 * 60 + DeliveryFee

\* the server's cart of the client's user, as the client would keep it
C26_ServerCart ==
    IF CartOf(ClientUser) = 0 THEN EmptyCart
    ELSE ClientView(carts[CartOf(ClientUser)])

\* C26: after any sequence of addToCart, updateQuantity, removeFromCart and
\* clearCart calls of CartProvider, once no request is in flight and no
\* response is on its way, the client's cart state equals the server's cart
\* of the user, in whatever order the responses of overlapping requests
\* arrive and also when a refresh request fails.
C26_ClientEqualsServerAtRest ==
    ((\A s \in Slots : reqs[s].pc = "idle") /\ client.inbox = {}) =>
        client.cart = C26_ServerCart

RECURSIVE C27_Ordered(_, _)
\* the units of material m on the lines of the orders os that are not cancelled
C27_Ordered(os, m) ==
    IF os = <<>> THEN 0
    ELSE (IF Head(os).status = "cancelled" THEN 0
          ELSE SumOver(SelectSeq(Head(os).items, LAMBDA it : it.materialId = m),
                       "quantity"))
         + C27_Ordered(Tail(os), m)

\* C27: stock conservation.  Whenever no request is in flight, every
\* Material's initial quantity equals its current quantity plus the line
\* quantities for it over all persisted orders that are not cancelled, after
\* any sequence of createOrder, updateOrderStatus and cancelOrder requests (no
\* supplier edits a material here).
C27_StockConservation ==
    Quiescent =>
       \A m \in {"m1", "m2"} :
          InitQuantity = materials[m].quantity + C27_Ordered(orders, m)

\* C28: once an order's status has been shipped or delivered, no later step
\* makes it cancelled and no later step restores its stock, whatever
\* cancelOrder and updateOrderStatus requests follow or are in flight (also a
\* cancelOrder that read the status before the update to shipped was written).
C28_ShippedIsNeverCancelled ==
    [][\A o \in 1..Len(orders) :
          orders[o].status \in {"shipped", "delivered"} =>
             /\ orders'[o].status # "cancelled"
             /\ restored'[o] = restored[o]]_vars

\* C29: a createOrder request with a line whose quantity is <= 0 persists no
\* Order and changes no Material quantity, and no createOrder request raises
\* a material's stock.
C29_NonPositiveLineRejected ==
    [][/\ \A s \in Slots :
             (/\ reqs[s].op = "createOrder"
              /\ reqs[s].pc \notin {"idle", "done"}
              /\ reqs'[s] # reqs[s]
              /\ \E k \in 1..Len(reqs[s].materials) :
                    reqs[s].materials[k].quantity <= 0) =>
                 /\ UNCHANGED <<materials, orders>>
                 /\ reqs'[s].pc = "done" => reqs'[s].res \in {400, 404, 500}
       /\ \A m \in MaterialIds : materials'[m].quantity <= materials[m].quantity]_vars

\* a createOrder request was refused by Order.create (500), which with no
\* order persisted can only be for a line of no or less than no units, and the
\* stock is untouched
C29_Witness ==
    /\ \E s \in Slots :
          reqs[s].op = "createOrder" /\ reqs[s].pc = "done" /\ reqs[s].res = 500
    /\ orders = <<>>
    /\ \A m \in {"m1", "m2"} : materials[m].quantity = InitQuantity

\* C30: every cart line has totalPrice = price x quantity after any sequence
\* of addToCart, updateCartItem and removeFromCart requests interleaved with
\* price changes of the material by updateMaterial.
C30_LineTotalIsPriceTimesQuantity ==
    \A c \in 1..Len(carts) : \A k \in 1..Len(carts[c].items) :
       carts[c].items[k].totalPrice = carts[c].items[k].price * carts[c].items[k].quantity

====
